---- MODULE Spec2Model ----
(***************************************************************************)
(* State-machine model of the statement diagnostics view                   *)
(* (cluster-ui/src/statementDetails/diagnostics/diagnosticsView.tsx).      *)
(*                                                                         *)
(* The component's properties, its one piece of local state (sortSetting), *)
(* the element tree produced by the last render and the effects of the     *)
(* most recent handler (callback invocations and setState, in program      *)
(* order) are the state.  Property changes made by the parent and user     *)
(* events are the actions.                                                 *)
(***************************************************************************)
EXTENDS Integers, Sequences, FiniteSets, TLC

\* Longest diagnosticsReports list the parent supplies.
MaxReports == 2

----------------------------------------------------------------------------
(* Values                                                                  *)

Undefined == "undefined"

\* StatementDiagnosticsReport values the parent may supply: completed and
\* pending requests of two statements, requested at times 0..2.
Report(id, fp, completed, bundle, at) ==
  [id |-> id, statement_fingerprint |-> fp, completed |-> completed,
   statement_diagnostics_id |-> bundle, requested_at |-> at]

Reports ==
  { Report("1", "fpA", TRUE,  "42", 1),
    Report("2", "fpB", TRUE,  "43", 2),
    Report("3", "fpA", FALSE, "",   0),
    Report("4", "fpB", FALSE, "",   1) }

\* A TimeScale, reduced to the date range it stands for.
TimeScales ==
  { [key |-> "Past Hour", start |-> 1, end |-> 2],
    [key |-> "Custom",    start |-> 0, end |-> 1] }

ColumnNames == {"activatedOn", "status", "actions"}

SortSettings == [columnTitle : ColumnNames, ascending : BOOLEAN]

OptionalHandlers ==
  {"onDownloadDiagnosticBundleClick", "onDiagnosticCancelRequestClick",
   "onSortingChange"}

\* activateDiagnosticsRef: not supplied, supplied with current = null, or
\* supplied with the modal attached.
RefStates == {Undefined, "null", "attached"}

StatementFingerprints == {Undefined, "fpA"}

\* One effect of a handler: a call of a callback property, a setState, or an
\* uncaught exception.
Call(op, args) == [op |-> op, args |-> args]

----------------------------------------------------------------------------
VARIABLES
  hasData,                 \* props.hasData
  diagnosticsReports,      \* props.diagnosticsReports
  currentScale,            \* props.currentScale
  activateDiagnosticsRef,  \* props.activateDiagnosticsRef
  statementFingerprint,    \* props.statementFingerprint
  handlers,                \* the optional callback properties that are supplied
  sortSetting,             \* this.state.sortSetting
  mounted,                 \* the component is mounted
  rendered,                \* element tree of the last render
  event,                   \* the most recent operation and its argument
  trace,                   \* effects of the most recent operation, in order
  dismissed                \* number of dismissAlertMessage calls so far

vars == <<hasData, diagnosticsReports, currentScale, activateDiagnosticsRef,
          statementFingerprint, handlers, sortSetting, mounted, rendered,
          event, trace, dismissed>>

fixedProps == <<activateDiagnosticsRef, statementFingerprint, handlers>>

----------------------------------------------------------------------------
(* Collaborators outside this file                                         *)

getBasePath == "/base"

\* filterByTimeScale keeps, in order, the reports requested inside the range
\* of the time scale.
filterByTimeScale(diagnostics, ts) ==
  SelectSeq(diagnostics,
            LAMBDA d : ts.start <= d.requested_at /\ d.requested_at <= ts.end)

----------------------------------------------------------------------------
(* The component                                                           *)

InitialSortSetting == [ascending |-> TRUE, columnTitle |-> "activatedOn"]

\* { ...diagnosticsReport, key: idx }
WithKey(diagnosticsReport, idx) ==
  [f \in (DOMAIN diagnosticsReport) \cup {"key"} |->
     IF f = "key" THEN idx ELSE diagnosticsReport[f]]

\* diagnosticsReports.map(...): the new array, and the receiver as the map
\* leaves it.
MapWithKeyInPlace(reports) ==
  LET keyed == [i \in 1..Len(reports) |-> WithKey(reports[i], i - 1)]
  IN  [result |-> keyed, receiver |-> keyed]

MapWithKey(reports) ==
  [result   |-> [i \in 1..Len(reports) |-> WithKey(reports[i], i - 1)],
   receiver |-> reports]

readyToRequestDiagnostics(reports) ==
  \A i \in 1..Len(reports) : reports[i].completed

dataSourceUnfiltered(reports, scale) == MapWithKey(reports).result

dataSource(reports, scale) ==
  filterByTimeScale(MapWithKey(reports).result, scale)

\* activateDiagnosticsRef?.current?.showModalFor(statementFingerprint)
showModalForUnguarded(ref, fingerprint) ==
  IF ref = "attached"
    THEN << Call("showModalFor", <<fingerprint>>) >>
    ELSE << Call("TypeError", <<>>) >>

showModalFor(ref, fingerprint) ==
  IF ref = "attached"
    THEN << Call("showModalFor", <<fingerprint>>) >>
    ELSE << >>

\* columns[2].cell: the control of the actions column for one table row, with
\* the effects of activating it.
actionsCellOwnFingerprint(diagnostic, props) ==
  IF diagnostic.completed
    THEN [control |-> "download",
          href    |-> getBasePath \o "/_admin/v1/stmtbundle/"
                        \o diagnostic.statement_diagnostics_id,
          onClick |->
            IF "onDownloadDiagnosticBundleClick" \in props.handlers
              THEN << Call("onDownloadDiagnosticBundleClick",
                           <<props.statementFingerprint>>) >>
              ELSE << >>]
    ELSE [control |-> "cancel",
          href    |-> Undefined,
          onClick |->
            IF "onDiagnosticCancelRequestClick" \in props.handlers
              THEN << Call("onDiagnosticCancelRequestClick", <<diagnostic>>) >>
              ELSE << >>]

actionsCellInverted(diagnostic, props) ==
  IF ~diagnostic.completed
    THEN [control |-> "download",
          href    |-> getBasePath \o "/_admin/v1/stmtbundle/"
                        \o diagnostic.statement_diagnostics_id,
          onClick |->
            IF "onDownloadDiagnosticBundleClick" \in props.handlers
              THEN << Call("onDownloadDiagnosticBundleClick",
                           <<diagnostic.statement_fingerprint>>) >>
              ELSE << >>]
    ELSE [control |-> "cancel",
          href    |-> Undefined,
          onClick |->
            IF "onDiagnosticCancelRequestClick" \in props.handlers
              THEN << Call("onDiagnosticCancelRequestClick", <<diagnostic>>) >>
              ELSE << >>]

actionsCell(diagnostic, props) ==
  IF diagnostic.completed
    THEN [control |-> "download",
          href    |-> getBasePath \o "/_admin/v1/stmtbundle/"
                        \o diagnostic.statement_diagnostics_id,
          onClick |->
            IF "onDownloadDiagnosticBundleClick" \in props.handlers
              THEN << Call("onDownloadDiagnosticBundleClick",
                           <<diagnostic.statement_fingerprint>>) >>
              ELSE << >>]
    ELSE [control |-> "cancel",
          href    |-> Undefined,
          onClick |->
            IF "onDiagnosticCancelRequestClick" \in props.handlers
              THEN << Call("onDiagnosticCancelRequestClick", <<diagnostic>>) >>
              ELSE << >>]

\* The empty-state view: its "Activate Diagnostics" button.
EmptyDiagnosticsView(props) ==
  [activateOnClick |->
     showModalFor(props.activateDiagnosticsRef, props.statementFingerprint)]

\* if (!hasData): the empty-state branch of render.
rendersEmptyStateWithoutRows(props) ==
  dataSource(props.diagnosticsReports, props.currentScale) = << >>

rendersEmptyState(props) == ~props.hasData

\* {readyToRequestDiagnostics && <Button onClick=...>}: the "Activate
\* diagnostics" button of the populated view, with the effects of a click.
activateButtonForShownRows(ready, props) ==
  IF readyToRequestDiagnostics(
       filterByTimeScale(props.diagnosticsReports, props.currentScale))
    THEN << showModalFor(props.activateDiagnosticsRef,
                         props.statementFingerprint) >>
    ELSE << >>

activateButton(ready, props) ==
  IF ready
    THEN << showModalFor(props.activateDiagnosticsRef,
                         props.statementFingerprint) >>
    ELSE << >>

\* render(): the element tree, and the diagnosticsReports array as render
\* leaves it.  button and table hold zero or one element.
render(props, state) ==
  LET ready  == readyToRequestDiagnostics(props.diagnosticsReports)
      mapped == MapWithKey(props.diagnosticsReports)
      data   == dataSource(props.diagnosticsReports, props.currentScale)
  IN  [tree |->
         IF rendersEmptyState(props)
           THEN [timeScaleDropdown |-> props.currentScale,
                 emptyView |-> TRUE,
                 button    |-> << EmptyDiagnosticsView(props).activateOnClick >>,
                 table     |-> << >>]
           ELSE [timeScaleDropdown |-> props.currentScale,
                 emptyView |-> FALSE,
                 button    |-> activateButton(ready, props),
                 table     |-> << [data |-> data,
                                   sortSetting |-> state.sortSetting] >>],
       diagnosticsReports |-> mapped.receiver]

\* this.props and this.state as records.
Props ==
  [hasData |-> hasData, diagnosticsReports |-> diagnosticsReports,
   currentScale |-> currentScale,
   activateDiagnosticsRef |-> activateDiagnosticsRef,
   statementFingerprint |-> statementFingerprint, handlers |-> handlers]

State == [sortSetting |-> sortSetting]

\* A render with the given properties and state: the tree is replaced.
Rerender(props, state) ==
  LET r == render(props, state)
  IN  /\ rendered' = r.tree
      /\ diagnosticsReports' = r.diagnosticsReports

----------------------------------------------------------------------------
(* Construction and first render                                           *)

Init ==
  /\ hasData \in BOOLEAN
  /\ currentScale \in TimeScales
  /\ activateDiagnosticsRef \in RefStates
  /\ statementFingerprint \in StatementFingerprints
  /\ handlers \in SUBSET OptionalHandlers
  /\ sortSetting = InitialSortSetting
  /\ mounted = TRUE
  /\ LET r == render([hasData |-> hasData, diagnosticsReports |-> << >>,
                      currentScale |-> currentScale,
                      activateDiagnosticsRef |-> activateDiagnosticsRef,
                      statementFingerprint |-> statementFingerprint,
                      handlers |-> handlers],
                     [sortSetting |-> InitialSortSetting])
     IN  /\ rendered = r.tree
         /\ diagnosticsReports = r.diagnosticsReports
  /\ event = [type |-> "mount", arg |-> << >>]
  /\ trace = << >>
  /\ dismissed = 0

----------------------------------------------------------------------------
(* Handlers                                                                *)

\* componentWillUnmount(): its effects.
componentWillUnmountSilent(props) == << >>

componentWillUnmount(props) == << Call("dismissAlertMessage", << >>) >>

\* onSortingChange(ss): its effects in program order, and the state that
\* setState leaves.
onSortingChangeStateFirst(ss, props) ==
  LET next == [sortSetting |-> [ascending |-> ss.ascending,
                                columnTitle |-> ss.columnTitle]]
  IN  [effects |->
         << Call("setState", <<next>>) >>
         \o (IF "onSortingChange" \in props.handlers
               THEN << Call("onSortingChange",
                            <<"Diagnostics", ss.columnTitle, ss.ascending>>) >>
               ELSE << >>),
       state |-> next]

onSortingChangeKeepsDirection(ss, props) ==
  LET next == [sortSetting |-> [ascending |-> sortSetting.ascending,
                                columnTitle |-> ss.columnTitle]]
  IN  [effects |->
         (IF "onSortingChange" \in props.handlers
            THEN << Call("onSortingChange",
                         <<"Diagnostics", ss.columnTitle, ss.ascending>>) >>
            ELSE << >>)
         \o << Call("setState", <<next>>) >>,
       state |-> next]

onSortingChange(ss, props) ==
  LET next == [sortSetting |-> [ascending |-> ss.ascending,
                                columnTitle |-> ss.columnTitle]]
  IN  [effects |->
         (IF "onSortingChange" \in props.handlers
            THEN << Call("onSortingChange",
                         <<"Diagnostics", ss.columnTitle, ss.ascending>>) >>
            ELSE << >>)
         \o << Call("setState", <<next>>) >>,
       state |-> next]

\* Number of dismissAlertMessage calls among the effects.
Dismissals(effects) ==
  Cardinality({i \in 1..Len(effects) : effects[i].op = "dismissAlertMessage"})

\* An operation with the given effects, recorded with its name and argument.
Record(type, arg, effects) ==
  /\ event' = [type |-> type, arg |-> arg]
  /\ trace' = effects
  /\ dismissed' = dismissed + Dismissals(effects)

RemoveAt(seq, i) == SubSeq(seq, 1, i - 1) \o SubSeq(seq, i + 1, Len(seq))

----------------------------------------------------------------------------
(* The parent changes a property: the component renders again              *)

ReportAdded(r) ==
  /\ mounted
  /\ Len(diagnosticsReports) < MaxReports
  /\ \A i \in 1..Len(diagnosticsReports) : diagnosticsReports[i].id # r.id
  /\ Rerender([Props EXCEPT !.diagnosticsReports = Append(diagnosticsReports, r)],
              State)
  /\ Record("reportAdded", r, << >>)
  /\ UNCHANGED <<hasData, currentScale, fixedProps, sortSetting, mounted>>

ReportRemoved(i) ==
  /\ mounted
  /\ i \in 1..Len(diagnosticsReports)
  /\ Rerender([Props EXCEPT !.diagnosticsReports = RemoveAt(diagnosticsReports, i)],
              State)
  /\ Record("reportRemoved", i, << >>)
  /\ UNCHANGED <<hasData, currentScale, fixedProps, sortSetting, mounted>>

HasDataChanged ==
  /\ mounted
  /\ hasData' = ~hasData
  /\ Rerender([Props EXCEPT !.hasData = ~hasData], State)
  /\ Record("hasDataChanged", ~hasData, << >>)
  /\ UNCHANGED <<currentScale, fixedProps, sortSetting, mounted>>

CurrentScaleChanged(ts) ==
  /\ mounted
  /\ ts # currentScale
  /\ currentScale' = ts
  /\ Rerender([Props EXCEPT !.currentScale = ts], State)
  /\ Record("currentScaleChanged", ts, << >>)
  /\ UNCHANGED <<hasData, fixedProps, sortSetting, mounted>>

----------------------------------------------------------------------------
(* User events                                                             *)

\* The table reports a sort action: onChangeSortSetting = this.onSortingChange.
SortAction(ss) ==
  /\ mounted
  /\ rendered.table # << >>
  /\ LET r == onSortingChange(ss, Props)
     IN  /\ sortSetting' = r.state.sortSetting
         /\ Rerender(Props, r.state)
         /\ Record("sort", ss, r.effects)
  /\ UNCHANGED <<hasData, currentScale, fixedProps, mounted>>

\* A click on the control of the actions cell of row i of the table.
DownloadClick(i) ==
  /\ mounted
  /\ rendered.table # << >>
  /\ i \in 1..Len(rendered.table[1].data)
  /\ LET cell == actionsCell(rendered.table[1].data[i], Props)
     IN  /\ cell.control = "download"
         /\ Record("download", i, cell.onClick)
  /\ UNCHANGED <<hasData, diagnosticsReports, currentScale, fixedProps,
                 sortSetting, mounted, rendered>>

CancelClick(i) ==
  /\ mounted
  /\ rendered.table # << >>
  /\ i \in 1..Len(rendered.table[1].data)
  /\ LET cell == actionsCell(rendered.table[1].data[i], Props)
     IN  /\ cell.control = "cancel"
         /\ Record("cancel", i, cell.onClick)
  /\ UNCHANGED <<hasData, diagnosticsReports, currentScale, fixedProps,
                 sortSetting, mounted, rendered>>

\* A click on "Activate Diagnostics" (empty state) or "Activate diagnostics".
ActivateClick ==
  /\ mounted
  /\ rendered.button # << >>
  /\ Record("activate", << >>, rendered.button[1])
  /\ UNCHANGED <<hasData, diagnosticsReports, currentScale, fixedProps,
                 sortSetting, mounted, rendered>>

\* A choice in the time scale dropdown: setTimeScale = onChangeTimeScale.
TimeScaleSelected(ts) ==
  /\ mounted
  /\ Record("timeScale", ts, << Call("onChangeTimeScale", <<ts>>) >>)
  /\ UNCHANGED <<hasData, diagnosticsReports, currentScale, fixedProps,
                 sortSetting, mounted, rendered>>

Unmount ==
  /\ mounted
  /\ mounted' = FALSE
  /\ Record("unmount", << >>, componentWillUnmount(Props))
  /\ UNCHANGED <<hasData, diagnosticsReports, currentScale, fixedProps,
                 sortSetting, rendered>>

----------------------------------------------------------------------------
Next ==
  \/ \E r \in Reports : ReportAdded(r)
  \/ \E i \in 1..MaxReports : ReportRemoved(i)
  \/ HasDataChanged
  \/ \E ts \in TimeScales : CurrentScaleChanged(ts)
  \/ \E ss \in SortSettings : SortAction(ss)
  \/ \E i \in 1..MaxReports : DownloadClick(i)
  \/ \E i \in 1..MaxReports : CancelClick(i)
  \/ ActivateClick
  \/ \E ts \in TimeScales : TimeScaleSelected(ts)
  \/ Unmount

Spec == Init /\ [][Next]_vars

----------------------------------------------------------------------------
(* Properties                                                              *)

\* The rows handed to the table by the last render (none without a table).
Rows == IF rendered.table = << >> THEN << >> ELSE rendered.table[1].data

InScale(report, ts) ==
  ts.start <= report.requested_at /\ report.requested_at <= ts.end

\* The row is a copy of the report at position row.key of the properties'
\* list: every field of the report, unchanged, and the key besides.
IsKeyedCopy(row, reports) ==
  /\ DOMAIN row = {"id", "statement_fingerprint", "completed",
                   "statement_diagnostics_id", "requested_at", "key"}
  /\ row.key + 1 \in 1..Len(reports)
  /\ \A f \in DOMAIN reports[row.key + 1] : row[f] = reports[row.key + 1][f]

\* C1: render shows the empty-state view and no table whenever hasData is
\* false, whatever diagnosticsReports holds, and the table and no empty-state
\* view whenever hasData is true.
C1_EmptyStateIffNoData ==
  /\ ~hasData => rendered.emptyView /\ rendered.table = << >>
  /\ hasData  => ~rendered.emptyView /\ rendered.table # << >>

C1_Witness ==
  /\ ~hasData
  /\ Len(diagnosticsReports) = 2
  /\ event.type = "reportAdded"
  /\ rendered.emptyView
  /\ rendered.table = << >>

\* C2: in the populated view the "Activate diagnostics" button is rendered
\* exactly when every report of the unfiltered list is completed.
C2_ActivateIffAllCompleted ==
  hasData =>
    (rendered.button # << >>
       <=> \A i \in 1..Len(diagnosticsReports) : diagnosticsReports[i].completed)

\* A pending report outside the time scale hides the button although every
\* row of the table is completed.
C2_Witness ==
  /\ hasData
  /\ rendered.button = << >>
  /\ Len(Rows) > 0
  /\ \A k \in 1..Len(Rows) : Rows[k].completed
  /\ \E i \in 1..Len(diagnosticsReports) :
       /\ ~diagnosticsReports[i].completed
       /\ ~InScale(diagnosticsReports[i], currentScale)

\* C3: a sort action (c, a) with the callback supplied calls it once with
\* ("Diagnostics", c, a), then sets the state, and leaves sortSetting = (c, a).
C3_SortNotifiesThenSets ==
  (event.type = "sort" /\ "onSortingChange" \in handlers) =>
    /\ Len(trace) = 2
    /\ trace[1].op = "onSortingChange"
    /\ trace[1].args = <<"Diagnostics", event.arg.columnTitle, event.arg.ascending>>
    /\ trace[2].op = "setState"
    /\ sortSetting = [columnTitle |-> event.arg.columnTitle,
                      ascending |-> event.arg.ascending]

C3_Witness ==
  /\ event.type = "sort"
  /\ event.arg = [columnTitle |-> "status", ascending |-> FALSE]
  /\ "onSortingChange" \in handlers
  /\ trace[1] = Call("onSortingChange", <<"Diagnostics", "status", FALSE>>)
  /\ sortSetting = [columnTitle |-> "status", ascending |-> FALSE]

\* C4: dismissAlertMessage has been called once when the view is unmounted and
\* never while it is mounted.
C4_DismissedOnceAtUnmount ==
  dismissed = IF mounted THEN 0 ELSE 1

C4_Witness ==
  /\ ~mounted
  /\ dismissed = 1
  /\ event.type = "unmount"
  /\ sortSetting # InitialSortSetting
  /\ Len(diagnosticsReports) > 0

\* C5 as stated: every pending row has a cancel control, and a click calls
\* onDiagnosticCancelRequestClick once with the report of the properties' list
\* itself.
C5_CancelGetsExactReport ==
  /\ \A k \in 1..Len(Rows) :
       ~Rows[k].completed => actionsCell(Rows[k], Props).control = "cancel"
  /\ (event.type = "cancel" /\ "onDiagnosticCancelRequestClick" \in handlers) =>
       /\ Len(trace) = 1
       /\ trace[1].op = "onDiagnosticCancelRequestClick"
       /\ trace[1].args = << diagnosticsReports[Rows[event.arg].key + 1] >>

\* C5 (amended): every pending row has a cancel control, and a click calls
\* onDiagnosticCancelRequestClick once with the table row of that report: a
\* copy of the report with every field unchanged and the row key added.
C5_CancelGetsKeyedCopy ==
  /\ \A k \in 1..Len(Rows) :
       ~Rows[k].completed => actionsCell(Rows[k], Props).control = "cancel"
  /\ (event.type = "cancel" /\ "onDiagnosticCancelRequestClick" \in handlers) =>
       /\ Len(trace) = 1
       /\ trace[1].op = "onDiagnosticCancelRequestClick"
       /\ Len(trace[1].args) = 1
       /\ trace[1].args[1] = Rows[event.arg]
       /\ ~trace[1].args[1].completed
       /\ IsKeyedCopy(trace[1].args[1], diagnosticsReports)

C5_Witness ==
  /\ event.type = "cancel"
  /\ "onDiagnosticCancelRequestClick" \in handlers
  /\ Len(diagnosticsReports) = 2
  /\ trace[1].args[1].key = 1
  /\ trace[1].args[1].id = diagnosticsReports[2].id

\* C6: every completed row has a download control whose target is
\* {basePath}/_admin/v1/stmtbundle/{statement_diagnostics_id}, and a click
\* calls onDownloadDiagnosticBundleClick with the report's
\* statement_fingerprint.
C6_DownloadLinkAndFingerprint ==
  /\ \A k \in 1..Len(Rows) :
       Rows[k].completed =>
         LET report == diagnosticsReports[Rows[k].key + 1]
             cell   == actionsCell(Rows[k], Props)
         IN  /\ cell.control = "download"
             /\ cell.href = getBasePath \o "/_admin/v1/stmtbundle/"
                              \o report.statement_diagnostics_id
  /\ (event.type = "download" /\ "onDownloadDiagnosticBundleClick" \in handlers) =>
       /\ Len(trace) = 1
       /\ trace[1].op = "onDownloadDiagnosticBundleClick"
       /\ trace[1].args =
            << diagnosticsReports[Rows[event.arg].key + 1].statement_fingerprint >>

C6_Witness ==
  /\ event.type = "download"
  /\ "onDownloadDiagnosticBundleClick" \in handlers
  /\ statementFingerprint = "fpA"
  /\ Rows[event.arg].statement_diagnostics_id = "43"
  /\ actionsCell(Rows[event.arg], Props).href = "/base/_admin/v1/stmtbundle/43"
  /\ trace = << Call("onDownloadDiagnosticBundleClick", <<"fpB">>) >>

\* C7: the rows of the table are exactly the reports of the current
\* diagnosticsReports that lie inside currentScale, in the list's order.
C7_RowsAreFilteredView ==
  rendered.table # << >> =>
    LET shown == {i \in 1..Len(diagnosticsReports) :
                    InScale(diagnosticsReports[i], currentScale)}
    IN  /\ Len(Rows) = Cardinality(shown)
        /\ \A k \in 1..Len(Rows) :
             /\ Rows[k].key + 1 \in shown
             /\ IsKeyedCopy(Rows[k], diagnosticsReports)
        /\ \A k, l \in 1..Len(Rows) : k < l => Rows[k].key < Rows[l].key

C7_Witness ==
  /\ event.type = "currentScaleChanged"
  /\ Len(diagnosticsReports) = 2
  /\ Len(Rows) = 1
  /\ Rows[1].key = 1

\* C8: with the optional handler absent, a sort action only sets the state,
\* a download or cancel click calls nothing and changes nothing, and an
\* activate click without a ref target calls nothing and raises nothing.
C8_Step ==
  /\ (event'.type = "sort" /\ "onSortingChange" \notin handlers) =>
       /\ Len(trace') = 1
       /\ trace'[1].op = "setState"
       /\ sortSetting' = [columnTitle |-> event'.arg.columnTitle,
                          ascending |-> event'.arg.ascending]
  /\ (event'.type = "download"
        /\ "onDownloadDiagnosticBundleClick" \notin handlers) =>
       /\ trace' = << >>
       /\ UNCHANGED <<hasData, diagnosticsReports, currentScale, fixedProps,
                      sortSetting, mounted, rendered, dismissed>>
  /\ (event'.type = "cancel"
        /\ "onDiagnosticCancelRequestClick" \notin handlers) =>
       /\ trace' = << >>
       /\ UNCHANGED <<hasData, diagnosticsReports, currentScale, fixedProps,
                      sortSetting, mounted, rendered, dismissed>>
  /\ (event'.type = "activate" /\ activateDiagnosticsRef # "attached") =>
       /\ trace' = << >>
       /\ UNCHANGED <<hasData, diagnosticsReports, currentScale, fixedProps,
                      sortSetting, mounted, rendered, dismissed>>

C8_AbsentHandlersAreNoOps == [][C8_Step]_vars

C8_Witness ==
  /\ event.type = "activate"
  /\ activateDiagnosticsRef = "null"
  /\ hasData
  /\ trace = << >>

\* C9: sortSetting starts as (activatedOn, ascending) and only a sort action
\* changes it, to the action's argument.
C9_Step ==
  IF event'.type = "sort"
    THEN sortSetting' = [columnTitle |-> event'.arg.columnTitle,
                         ascending |-> event'.arg.ascending]
    ELSE sortSetting' = sortSetting

C9_SortSettingOnlySetBySort ==
  /\ sortSetting = [columnTitle |-> "activatedOn", ascending |-> TRUE]
  /\ [][C9_Step]_vars

C9_Witness ==
  /\ event.type = "currentScaleChanged"
  /\ sortSetting = [columnTitle |-> "status", ascending |-> FALSE]

\* C10: no operation of the view changes the diagnosticsReports list of the
\* properties: it is what the parent last supplied.
C10_Step ==
  diagnosticsReports' =
    CASE event'.type = "reportAdded" ->
           Append(diagnosticsReports, event'.arg)
      [] event'.type = "reportRemoved" ->
           RemoveAt(diagnosticsReports, event'.arg)
      [] OTHER -> diagnosticsReports

C10_ReportsNeverMutated == [][C10_Step]_vars

C10_Witness ==
  /\ event.type = "sort"
  /\ Len(diagnosticsReports) = 2
  /\ Len(Rows) = 2
  /\ Rows[2].key = 1
  /\ \A i \in 1..2 : diagnosticsReports[i] \in Reports
====
